---- MODULE Spec2Model ----
(***************************************************************************)
(* A model of treys' hand evaluator (src/treys/evaluator.py): the five-,   *)
(* six- and seven-card evaluators, the Omaha (PLO) evaluator, the rank     *)
(* class derivation, the rank percentage and the street-by-street hand     *)
(* summary.  Cards are the 32-bit integers of Card.new, ranks are the      *)
(* integers 1..7462 of the lookup table.                                   *)
(***************************************************************************)
EXTENDS Integers, Naturals, Sequences, FiniteSets, TLC

(***************************************************************************)
(* Bounds of the model.                                                    *)
(***************************************************************************)
\* number of cards of DeckOrder the inputs are dealt from
DeckSize == 9
\* largest board handed to Evaluator.evaluate (hand of 2 + board of 6 = 8 cards)
MaxBoard == 6
\* largest number of players handed to hand_summary
MaxPlayers == 2
\* ranks handed to get_rank_class lie within RankMargin of a boundary
RankMargin == 3

(***************************************************************************)
(* Card (card.py): the integer encoding the evaluator relies on.           *)
(*   bits 16..28 one-hot rank, bits 12..15 one-hot suit, bits 8..11 rank,  *)
(*   bits 0..7 the prime of the rank.                                      *)
(***************************************************************************)
PRIMES == <<2, 3, 5, 7, 11, 13, 17, 19, 23, 29, 31, 37, 41>>

INT_RANKS == 0..12

RECURSIVE Pow2(_)
Pow2(n) == IF n = 0 THEN 1 ELSE 2 * Pow2(n - 1)

\* Card.new: rank_int in 0..12 (deuce..ace), suit_int in {1,2,4,8} (s,h,d,c)
Card_new(rank_int, suit_int) ==
    Pow2(rank_int + 16) + suit_int * 4096 + rank_int * 256 + PRIMES[rank_int + 1]

RECURSIVE BitAnd(_, _)
BitAnd(a, b) ==
    IF a = 0 \/ b = 0 THEN 0
    ELSE (IF a % 2 = 1 /\ b % 2 = 1 THEN 1 ELSE 0) + 2 * BitAnd(a \div 2, b \div 2)

RECURSIVE BitOr(_, _)
BitOr(a, b) ==
    IF a = 0 THEN b
    ELSE IF b = 0 THEN a
    ELSE (IF a % 2 = 1 \/ b % 2 = 1 THEN 1 ELSE 0) + 2 * BitOr(a \div 2, b \div 2)

\* c & 0xF000, shifted down to a nibble
SuitBits(c) == (c \div 4096) % 16

\* c >> 16
RankBits(c) == c \div 65536

\* Card.prime_product_from_hand: product of (c & 0xFF) over the cards
RECURSIVE prime_product_from_hand(_)
prime_product_from_hand(cards) ==
    IF cards = << >> THEN 1
    ELSE (Head(cards) % 256) * prime_product_from_hand(Tail(cards))

\* Card.prime_product_from_rankbits: product of the primes of the set bits
RECURSIVE RankbitsProduct(_, _)
RankbitsProduct(rankbits, i) ==
    IF rankbits = 0 THEN 1
    ELSE (IF rankbits % 2 = 1 THEN PRIMES[i + 1] ELSE 1)
         * RankbitsProduct(rankbits \div 2, i + 1)

prime_product_from_rankbits(rankbits) == RankbitsProduct(rankbits, 0)

(***************************************************************************)
(* LookupTable (lookup.py): the rank class boundaries and the two tables   *)
(* from prime product to rank.                                             *)
(***************************************************************************)
MAX_ROYAL_FLUSH == 1
MAX_STRAIGHT_FLUSH == 10
MAX_FOUR_OF_A_KIND == 166
MAX_FULL_HOUSE == 322
MAX_FLUSH == 1599
MAX_STRAIGHT == 1609
MAX_THREE_OF_A_KIND == 2467
MAX_TWO_PAIR == 3325
MAX_PAIR == 6185
MAX_HIGH_CARD == 7462

\* LookupTable.MAX_TO_RANK_CLASS, keyed by boundary
MAX_TO_RANK_CLASS ==
    [m \in {MAX_ROYAL_FLUSH, MAX_STRAIGHT_FLUSH, MAX_FOUR_OF_A_KIND,
            MAX_FULL_HOUSE, MAX_FLUSH, MAX_STRAIGHT, MAX_THREE_OF_A_KIND,
            MAX_TWO_PAIR, MAX_PAIR, MAX_HIGH_CARD} |->
        CASE m = MAX_ROYAL_FLUSH -> 0
          [] m = MAX_STRAIGHT_FLUSH -> 1
          [] m = MAX_FOUR_OF_A_KIND -> 2
          [] m = MAX_FULL_HOUSE -> 3
          [] m = MAX_FLUSH -> 4
          [] m = MAX_STRAIGHT -> 5
          [] m = MAX_THREE_OF_A_KIND -> 6
          [] m = MAX_TWO_PAIR -> 7
          [] m = MAX_PAIR -> 8
          [] OTHER -> 9]

RECURSIVE Binom(_, _)
Binom(n, k) ==
    IF k = 0 THEN 1
    ELSE IF n < k THEN 0
    ELSE (Binom(n - 1, k - 1) * n) \div k

RECURSIVE SumOver(_, _)
SumOver(S, f) ==
    IF S = {} THEN 0
    ELSE LET x == CHOOSE y \in S : TRUE IN f[x] + SumOver(S \ {x}, f)

\* number of same-size rank sets whose rank-bit pattern is numerically smaller
BitsBelow(S) ==
    SumOver(S, [x \in S |-> Binom(x, 1 + Cardinality({y \in S : y < x}))])

\* the ten straights in table order: ace high down to six high, then the wheel
Straights ==
    [i \in 1..10 |-> IF i = 10 THEN {12, 0, 1, 2, 3} ELSE (8 - (i - 1))..(12 - (i - 1))]

StraightsBelow == [i \in 1..10 |-> BitsBelow(Straights[i])]

IsStraight(S) == \E i \in 1..10 : Straights[i] = S

StraightIndex(S) == CHOOSE i \in 1..10 : Straights[i] = S

\* position of S among the 1277 non-straight five-rank sets, highest pattern first
HighCardIndex(S) ==
    LET below == BitsBelow(S)
    IN (Binom(13, 5) - 1 - below)
       - Cardinality({i \in 1..10 : StraightsBelow[i] > below})

\* position of rank x in the descending rank list with the ranks R removed
KickerPos(x, R) == (12 - x) - Cardinality({r \in R : r > x})

\* position of the positions P among itertools.combinations(range(n), |P|)
CombIndex(P, n) ==
    LET k == Cardinality(P)
    IN Binom(n, k) - 1
       - SumOver(P, [p \in P |-> Binom(n - 1 - p, k - Cardinality({q \in P : q < p}))])

RECURSIVE Multiplicity(_, _)
Multiplicity(n, p) == IF n % p = 0 THEN 1 + Multiplicity(n \div p, p) ELSE 0

\* LookupTable.flush_lookup[prime]
flush_lookup(prime) ==
    LET S == {r \in INT_RANKS : prime % PRIMES[r + 1] = 0}
    IN IF IsStraight(S) THEN StraightIndex(S)
       ELSE MAX_FULL_HOUSE + 1 + HighCardIndex(S)

\* LookupTable.unsuited_lookup[prime]
unsuited_lookup(prime) ==
    LET S == {r \in INT_RANKS : prime % PRIMES[r + 1] = 0}
        m == [r \in S |-> Multiplicity(prime, PRIMES[r + 1])]
        of(n) == {r \in S : m[r] = n}
        one(T) == CHOOSE r \in T : TRUE
    IN CASE of(4) # {} ->
              MAX_STRAIGHT_FLUSH + 1 + (12 - one(of(4))) * 12
                  + KickerPos(one(of(1)), of(4))
         [] of(3) # {} /\ of(2) # {} ->
              MAX_FOUR_OF_A_KIND + 1 + (12 - one(of(3))) * 12
                  + KickerPos(one(of(2)), of(3))
         [] of(3) # {} ->
              MAX_STRAIGHT + 1 + (12 - one(of(3))) * 66
                  + CombIndex({KickerPos(k, of(3)) : k \in of(1)}, 12)
         [] Cardinality(of(2)) = 2 ->
              MAX_THREE_OF_A_KIND + 1
                  + CombIndex({12 - p : p \in of(2)}, 13) * 11
                  + KickerPos(one(of(1)), of(2))
         [] of(2) # {} ->
              MAX_TWO_PAIR + 1 + (12 - one(of(2))) * 220
                  + CombIndex({KickerPos(k, of(2)) : k \in of(1)}, 12)
         [] IsStraight(S) -> MAX_FLUSH + StraightIndex(S)
         [] OTHER -> MAX_PAIR + 1 + HighCardIndex(S)

(***************************************************************************)
(* Evaluator (evaluator.py)                                                *)
(***************************************************************************)
HAND_LENGTH == 2
BOARD_LENGTH == 5

\* Evaluator._five
_five(cards) ==
    IF BitAnd(BitAnd(BitAnd(BitAnd(SuitBits(cards[1]), SuitBits(cards[2])),
                            SuitBits(cards[3])), SuitBits(cards[4])),
              SuitBits(cards[5])) # 0
    THEN LET handOR == BitOr(BitOr(BitOr(BitOr(RankBits(cards[1]), RankBits(cards[2])),
                                         RankBits(cards[3])), RankBits(cards[4])),
                             RankBits(cards[5]))
             prime == prime_product_from_rankbits(handOR)
         IN flush_lookup(prime)
    ELSE LET prime == prime_product_from_hand(cards)
         IN unsuited_lookup(prime)

\* itertools.combinations(cards, r): the r-tuples in lexicographic position order
RECURSIVE combinations(_, _)
combinations(cards, r) ==
    IF r = 0 THEN << << >> >>
    ELSE IF Len(cards) < r THEN << >>
    ELSE LET rest == combinations(Tail(cards), r - 1)
         IN [i \in 1..Len(rest) |-> <<Head(cards)>> \o rest[i]]
            \o combinations(Tail(cards), r)

\* the loop shared by _six, _seven and PLOEvaluator.evaluate, run over
\* combos[lo..hi] from the state acc = [minimum, scored]:
\*   for combo in combos:
\*       score = self._five(combo); if score < minimum: minimum = score
\* scored records the calls of _five, <<combo, score>>, in call order.  The passes run
\* left to right; the range is halved, and the state after the left half is
\* looked at before the right half starts, only to keep the evaluation shallow.
RECURSIVE ScoreLoop(_, _, _, _)
ScoreLoop(combos, lo, hi, acc) ==
    IF lo > hi THEN acc
    ELSE IF lo = hi
    THEN LET combo == combos[lo]
             score == _five(combo)
         IN [minimum |-> IF score < acc.minimum THEN score ELSE acc.minimum,
             scored |-> Append(acc.scored, <<combo, score>>)]
    ELSE LET mid == (lo + hi) \div 2
             left == ScoreLoop(combos, lo, mid, acc)
         IN IF left.minimum \in Int
            THEN ScoreLoop(combos, mid + 1, hi, left)
            ELSE left

\* _six scoring the runs of five consecutive cards instead of every combination
_six_windows(cards) ==
    LET combos == [i \in 1..(Len(cards) - 4) |-> SubSeq(cards, i, i + 4)]
    IN ScoreLoop(combos, 1, Len(combos),
                 [minimum |-> MAX_HIGH_CARD, scored |-> << >>])

\* Evaluator._six
_six(cards) ==
    LET combos == combinations(cards, 5)
    IN ScoreLoop(combos, 1, Len(combos),
                 [minimum |-> MAX_HIGH_CARD, scored |-> << >>])

\* _seven with the fold seeded with the best rank instead of the worst
_seven_seed(cards) ==
    LET combos == combinations(cards, 5)
    IN ScoreLoop(combos, 1, Len(combos),
                 [minimum |-> MAX_ROYAL_FLUSH, scored |-> << >>])

\* Evaluator._seven
_seven(cards) ==
    LET combos == combinations(cards, 5)
    IN ScoreLoop(combos, 1, Len(combos),
                 [minimum |-> MAX_HIGH_CARD, scored |-> << >>])

\* the keys of Evaluator.hand_size_map
hand_size_map == {5, 6, 7}

\* evaluate sending every size above 7 to _seven instead of failing
evaluate_default(h, b) ==
    LET all_cards == h \o b
        n == Len(all_cards)
    IN IF n < 5
       THEN [exc |-> "KeyError", rank |-> 0, scored |-> << >>]
       ELSE IF n = 5
       THEN LET score == _five(all_cards)
            IN [exc |-> "none", rank |-> score, scored |-> <<<<all_cards, score>>>>]
       ELSE LET r == IF n = 6 THEN _six(all_cards) ELSE _seven(all_cards)
            IN [exc |-> "none", rank |-> r.minimum, scored |-> r.scored]

\* Evaluator.evaluate: a miss in hand_size_map raises KeyError
evaluate(h, b) ==
    LET all_cards == h \o b
        n == Len(all_cards)
    IN IF n \notin hand_size_map
       THEN [exc |-> "KeyError", rank |-> 0, scored |-> << >>]
       ELSE IF n = 5
       THEN LET score == _five(all_cards)
            IN [exc |-> "none", rank |-> score, scored |-> <<<<all_cards, score>>>>]
       ELSE LET r == IF n = 6 THEN _six(all_cards) ELSE _seven(all_cards)
            IN [exc |-> "none", rank |-> r.minimum, scored |-> r.scored]

\* get_rank_class with the flush and straight branches naming each other's boundary
rank_class_branch_swapped(rk) ==
    IF rk >= 0 /\ rk <= MAX_ROYAL_FLUSH THEN MAX_ROYAL_FLUSH
    ELSE IF rk <= MAX_STRAIGHT_FLUSH THEN MAX_STRAIGHT_FLUSH
    ELSE IF rk <= MAX_FOUR_OF_A_KIND THEN MAX_FOUR_OF_A_KIND
    ELSE IF rk <= MAX_FULL_HOUSE THEN MAX_FULL_HOUSE
    ELSE IF rk <= MAX_FLUSH THEN MAX_STRAIGHT
    ELSE IF rk <= MAX_STRAIGHT THEN MAX_FLUSH
    ELSE IF rk <= MAX_THREE_OF_A_KIND THEN MAX_THREE_OF_A_KIND
    ELSE IF rk <= MAX_TWO_PAIR THEN MAX_TWO_PAIR
    ELSE IF rk <= MAX_PAIR THEN MAX_PAIR
    ELSE IF rk <= MAX_HIGH_CARD THEN MAX_HIGH_CARD
    ELSE -1

\* get_rank_class without the royal flush branch: nine boundaries
rank_class_branch_nine(rk) ==
    IF rk >= 0 /\ rk <= MAX_STRAIGHT_FLUSH THEN MAX_STRAIGHT_FLUSH
    ELSE IF rk <= MAX_FOUR_OF_A_KIND THEN MAX_FOUR_OF_A_KIND
    ELSE IF rk <= MAX_FULL_HOUSE THEN MAX_FULL_HOUSE
    ELSE IF rk <= MAX_FLUSH THEN MAX_FLUSH
    ELSE IF rk <= MAX_STRAIGHT THEN MAX_STRAIGHT
    ELSE IF rk <= MAX_THREE_OF_A_KIND THEN MAX_THREE_OF_A_KIND
    ELSE IF rk <= MAX_TWO_PAIR THEN MAX_TWO_PAIR
    ELSE IF rk <= MAX_PAIR THEN MAX_PAIR
    ELSE IF rk <= MAX_HIGH_CARD THEN MAX_HIGH_CARD
    ELSE -1

\* the branch of get_rank_class that fires: the boundary constant it names,
\* or -1 for the final else (raise Exception)
rank_class_branch(rk) ==
    IF rk >= 0 /\ rk <= MAX_ROYAL_FLUSH THEN MAX_ROYAL_FLUSH
    ELSE IF rk <= MAX_STRAIGHT_FLUSH THEN MAX_STRAIGHT_FLUSH
    ELSE IF rk <= MAX_FOUR_OF_A_KIND THEN MAX_FOUR_OF_A_KIND
    ELSE IF rk <= MAX_FULL_HOUSE THEN MAX_FULL_HOUSE
    ELSE IF rk <= MAX_FLUSH THEN MAX_FLUSH
    ELSE IF rk <= MAX_STRAIGHT THEN MAX_STRAIGHT
    ELSE IF rk <= MAX_THREE_OF_A_KIND THEN MAX_THREE_OF_A_KIND
    ELSE IF rk <= MAX_TWO_PAIR THEN MAX_TWO_PAIR
    ELSE IF rk <= MAX_PAIR THEN MAX_PAIR
    ELSE IF rk <= MAX_HIGH_CARD THEN MAX_HIGH_CARD
    ELSE -1

\* Evaluator.get_rank_class
get_rank_class(rk) ==
    LET m == rank_class_branch(rk)
    IN IF m = -1
       THEN [exc |-> "Exception", class |-> -1, boundary |-> -1]
       ELSE [exc |-> "none", class |-> MAX_TO_RANK_CLASS[m], boundary |-> m]

RECURSIVE GCD(_, _)
GCD(a, b) == IF b = 0 THEN a ELSE GCD(b, a % b)

\* the quotient a / b of two floats holding integers, as a fraction in lowest
\* terms <<numerator, denominator>> (b > 0)
FloatDiv(a, b) ==
    LET g == GCD(IF a < 0 THEN -a ELSE a, b)
    IN <<a \div g, b \div g>>

\* the percentage scaled from the best rank, (rank - 1) / (MAX_HIGH_CARD - 1)
get_five_card_rank_percentage_from_one(h_rank) ==
    FloatDiv(h_rank - 1, MAX_HIGH_CARD - 1)

\* Evaluator.get_five_card_rank_percentage
get_five_card_rank_percentage(h_rank) == FloatDiv(h_rank, MAX_HIGH_CARD)

\* the inner loop's body with a tie replacing the leaders instead of joining them
PlayerStep_tie_replaces(acc, player, e) ==
    IF acc.exc # "none" THEN acc
    ELSE IF e.exc # "none"
    THEN [acc EXCEPT !.exc = e.exc, !.evals = @ + 1]
    ELSE IF e.rank <= acc.best_rank
    THEN [acc EXCEPT !.winners = <<player>>, !.best_rank = e.rank,
                     !.evals = @ + 1, !.ranks = Append(@, <<player, e.rank>>)]
    ELSE [acc EXCEPT !.evals = @ + 1, !.ranks = Append(@, <<player, e.rank>>)]

\* the body of hand_summary's inner loop for one (player, hand): e is what
\* self.evaluate(hand, board[:(i + 3)]) gave.  acc.ranks records the ranks
\* it gave in this street, <<player, rank>>, acc.cards the street's board size.  rank_class, class_string and
\* percentage are computed and dropped; an exception ends the call.
\*   if rank == best_rank: winners.append(player); best_rank = rank
\*   elif rank < best_rank: winners = [player]; best_rank = rank
PlayerStep(acc, player, e) ==
    IF acc.exc # "none" THEN acc
    ELSE IF e.exc # "none"
    THEN [acc EXCEPT !.exc = e.exc, !.evals = @ + 1]
    ELSE IF get_rank_class(e.rank).exc # "none"
    THEN [acc EXCEPT !.exc = "Exception", !.evals = @ + 1]
    ELSE IF e.rank = acc.best_rank
    THEN [acc EXCEPT !.winners = Append(@, player), !.best_rank = e.rank,
                     !.evals = @ + 1, !.ranks = Append(@, <<player, e.rank>>)]
    ELSE IF e.rank < acc.best_rank
    THEN [acc EXCEPT !.winners = <<player>>, !.best_rank = e.rank,
                     !.evals = @ + 1, !.ranks = Append(@, <<player, e.rank>>)]
    ELSE [acc EXCEPT !.evals = @ + 1, !.ranks = Append(@, <<player, e.rank>>)]

\* the inner loop, for player, hand in hands.items(), after its first k passes
\* on the board prefix b: best_rank and winners start afresh for every street
RECURSIVE PlayerLoop(_, _, _)
PlayerLoop(items, b, k) ==
    IF k = 0
    THEN [best_rank |-> 7463, winners |-> << >>, exc |-> "none", evals |-> 0,
          ranks |-> << >>, cards |-> Len(b)]
    ELSE PlayerStep(PlayerLoop(items, b, k - 1), items[k][1],
                    evaluate(items[k][2], b))

\* what one street adds to the call's state: an exception ends the call,
\* otherwise winners is the street's own list
StageStep(acc, st) ==
    IF acc.exc # "none" THEN acc
    ELSE [exc |-> st.exc,
          winners |-> IF st.exc = "none" THEN st.winners ELSE << >>,
          streets |-> Append(acc.streets,
                             [cards |-> st.cards, ranks |-> st.ranks,
                              winners |-> st.winners]),
          evals |-> acc.evals + st.evals]

\* the slice q[:n]: the first n elements, or all of q when it is shorter
Prefix(q, n) == SubSeq(q, 1, IF n < Len(q) THEN n ELSE Len(q))

\* the outer loop, for i in range(len(stages)), after its first n passes
\* (i = 0 FLOP, 1 TURN, 2 RIVER; pass i looks at board[:(i + 3)])
RECURSIVE StageLoop(_, _, _)
StageLoop(b, items, n) ==
    IF n = 0
    THEN [exc |-> "none", winners |-> << >>, streets |-> << >>, evals |-> 0]
    ELSE StageStep(StageLoop(b, items, n - 1),
                   PlayerLoop(items, Prefix(b, (n - 1) + 3), Len(items)))

\* hand_summary asserting only that the board is not too long
hand_summary_at_most(b, items) ==
    IF Len(b) > BOARD_LENGTH
    THEN [exc |-> "AssertionError", winners |-> << >>, streets |-> << >>, evals |-> 0]
    ELSE StageLoop(b, items, 3)

\* Evaluator.hand_summary; items is hands.items() in the mapping's order
hand_summary(b, items) ==
    IF Len(b) # BOARD_LENGTH
    THEN [exc |-> "AssertionError", winners |-> << >>, streets |-> << >>, evals |-> 0]
    ELSE StageLoop(b, items, 3)

(***************************************************************************)
(* PLOEvaluator (evaluator.py)                                             *)
(***************************************************************************)
PLO_HAND_LENGTH == 4

\* the nested loops of PLOEvaluator.evaluate: every (hand_combo, board_combo)
\* pair as the list board_combo + hand_combo, hand_combo outermost
RECURSIVE PLOCombos(_, _)
PLOCombos(hand_combos, board_combos) ==
    IF hand_combos = << >> THEN << >>
    ELSE [j \in 1..Len(board_combos) |-> board_combos[j] \o Head(hand_combos)]
         \o PLOCombos(Tail(hand_combos), board_combos)

\* PLOEvaluator.evaluate scoring any five of the nine cards, as _seven would
PLO_evaluate_any_five(h, b) ==
    LET combos == combinations(b \o h, 5)
        r == ScoreLoop(combos, 1, Len(combos),
                       [minimum |-> MAX_HIGH_CARD, scored |-> << >>])
    IN [exc |-> "none", rank |-> r.minimum, scored |-> r.scored]

\* PLOEvaluator.evaluate
PLO_evaluate(h, b) ==
    LET combos == PLOCombos(combinations(h, 2), combinations(b, 3))
        r == ScoreLoop(combos, 1, Len(combos),
                       [minimum |-> MAX_HIGH_CARD, scored |-> << >>])
    IN [exc |-> "none", rank |-> r.minimum, scored |-> r.scored]

(***************************************************************************)
(* The inputs: cards dealt from the first DeckSize cards of DeckOrder.     *)
(***************************************************************************)
\* suits: 1 spades, 2 hearts, 4 diamonds, 8 clubs
DeckOrder ==
    <<Card_new(12, 1), Card_new(11, 1), Card_new(10, 1), Card_new(9, 1),
      Card_new(8, 1),  Card_new(12, 2), Card_new(11, 4), Card_new(0, 8),
      Card_new(12, 4), Card_new(0, 2),  Card_new(7, 8),  Card_new(10, 2)>>

Deck == SubSeq(DeckOrder, 1, DeckSize)

DeckIdx == 1..DeckSize

\* the cards at the positions S of the deck, in deck order
RECURSIVE Deal(_)
Deal(S) ==
    IF S = {} THEN << >>
    ELSE LET i == CHOOSE x \in S : \A y \in S : x <= y
         IN <<Deck[i]>> \o Deal(S \ {i})

IdxSets(n) == {S \in SUBSET DeckIdx : Cardinality(S) = n}

\* the cards left after S, split into consecutive two-card hands
Chunks(S) ==
    LET rest == Deal(DeckIdx \ S)
    IN [k \in 1..(Len(rest) \div HAND_LENGTH) |->
           SubSeq(rest, HAND_LENGTH * (k - 1) + 1, HAND_LENGTH * k)]

\* ranks around every class boundary, below 1 and above MAX_HIGH_CARD included
RankInputs ==
    {m + d : m \in {0} \cup DOMAIN MAX_TO_RANK_CLASS, d \in (-RankMargin)..RankMargin}

(***************************************************************************)
(* State: one call of the library.  The evaluator keeps no state between   *)
(* calls, so a behaviour is a call with its arguments (pc = "call")        *)
(* followed by its outcome (pc = "return").                                *)
(***************************************************************************)
VARIABLES op, pc, hand, board, hands, hr, exc, rank, rank_class, boundary,
          percentage, winners, scored, streets, evals

args == <<op, hand, board, hands, hr>>

vars == <<op, pc, hand, board, hands, hr, exc, rank, rank_class, boundary,
          percentage, winners, scored, streets, evals>>

\* Evaluator().evaluate(hand, board): any 2..(2 + MaxBoard) cards of the deck,
\* the first two as the hand, the others as the board
EvaluateArgs ==
    \E D \in {S \in SUBSET DeckIdx :
                 Cardinality(S) \in HAND_LENGTH..(HAND_LENGTH + MaxBoard)} :
        /\ op = "evaluate"
        /\ hand = SubSeq(Deal(D), 1, HAND_LENGTH)
        /\ board = SubSeq(Deal(D), HAND_LENGTH + 1, Cardinality(D))
        /\ hands = << >> /\ hr = 0

\* PLOEvaluator().evaluate(hand, board): any four cards of the deck as the
\* hand, the first five of the other cards as the board
PLOEvaluateArgs ==
    \E H \in IdxSets(PLO_HAND_LENGTH) :
        /\ op = "plo_evaluate"
        /\ hand = Deal(H)
        /\ board = SubSeq(Deal(DeckIdx \ H), 1, BOARD_LENGTH)
        /\ hands = << >> /\ hr = 0

\* get_rank_class(hr) and get_five_card_rank_percentage(hr)
RankArgs ==
    \E x \in RankInputs :
        /\ op \in {"get_rank_class", "get_five_card_rank_percentage"}
        /\ hr = x /\ hand = << >> /\ board = << >> /\ hands = << >>

\* hand_summary(board, hands): a board of 4, 5 or 6 cards, and players 1..n in
\* the mapping's order, each holding one of the two-card hands left in the deck
HandSummaryArgs ==
    \E B \in {S \in SUBSET DeckIdx :
                 Cardinality(S) \in (BOARD_LENGTH - 1)..(BOARD_LENGTH + 1)} :
      \E n \in 0..MaxPlayers :
        \E f \in [1..n -> DOMAIN Chunks(B)] :
          /\ \A p, q \in 1..n : p # q => f[p] # f[q]
          /\ op = "hand_summary"
          /\ board = Deal(B)
          /\ hands = [p \in 1..n |-> <<p, Chunks(B)[f[p]]>>]
          /\ hand = << >> /\ hr = 0

Init ==
    /\ pc = "call"
    /\ exc = "none" /\ rank = 0 /\ rank_class = -1 /\ boundary = -1
    /\ percentage = <<0, 1>> /\ winners = << >> /\ scored = << >>
    /\ streets = << >> /\ evals = 0
    /\ \/ EvaluateArgs
       \/ PLOEvaluateArgs
       \/ RankArgs
       \/ HandSummaryArgs

Evaluate ==
    /\ pc = "call" /\ op = "evaluate"
    /\ LET r == evaluate(hand, board)
       IN exc' = r.exc /\ rank' = r.rank /\ scored' = r.scored
    /\ pc' = "return"
    /\ UNCHANGED <<args, rank_class, boundary, percentage, winners, streets, evals>>

PLOEvaluate ==
    /\ pc = "call" /\ op = "plo_evaluate"
    /\ LET r == PLO_evaluate(hand, board)
       IN exc' = r.exc /\ rank' = r.rank /\ scored' = r.scored
    /\ pc' = "return"
    /\ UNCHANGED <<args, rank_class, boundary, percentage, winners, streets, evals>>

GetRankClass ==
    /\ pc = "call" /\ op = "get_rank_class"
    /\ LET r == get_rank_class(hr)
       IN exc' = r.exc /\ rank_class' = r.class /\ boundary' = r.boundary
    /\ pc' = "return"
    /\ UNCHANGED <<args, rank, percentage, winners, scored, streets, evals>>

GetPercentage ==
    /\ pc = "call" /\ op = "get_five_card_rank_percentage"
    /\ percentage' = get_five_card_rank_percentage(hr)
    /\ pc' = "return"
    /\ UNCHANGED <<args, exc, rank, rank_class, boundary, winners, scored,
                   streets, evals>>

HandSummary ==
    /\ pc = "call" /\ op = "hand_summary"
    /\ LET r == hand_summary(board, hands)
       IN /\ exc' = r.exc /\ winners' = r.winners
          /\ streets' = r.streets /\ evals' = r.evals
    /\ pc' = "return"
    /\ UNCHANGED <<args, rank, rank_class, boundary, percentage, scored>>

Next ==
    \/ Evaluate
    \/ PLOEvaluate
    \/ GetRankClass
    \/ GetPercentage
    \/ HandSummary

Spec == Init /\ [][Next]_vars

(***************************************************************************)
(* Properties                                                              *)
(***************************************************************************)
Returned(o) == pc = "return" /\ op = o

all_cards == hand \o board

Range(q) == {q[i] : i \in DOMAIN q}

SetMin(S) == CHOOSE m \in S : \A x \in S : m <= x

\* the cards of q at the positions P, in q's order
RECURSIVE Pick(_, _)
Pick(q, P) ==
    IF P = {} THEN << >>
    ELSE LET i == CHOOSE x \in P : \A y \in P : x <= y
         IN <<q[i]>> \o Pick(q, P \ {i})

Subsets(S, n) == {T \in SUBSET S : Cardinality(T) = n}

ScoredSets == {Range(scored[i][1]) : i \in DOMAIN scored}

ScoredScores == {scored[i][2] : i \in DOMAIN scored}

\* C1: for a hand and board of 6 or 7 cards together, evaluate returns exactly
\* the minimum of _five over all 5-card subsets of the concatenated cards
C1_BruteForceMinimum ==
    (Returned("evaluate") /\ Len(all_cards) \in {6, 7}) =>
        /\ exc = "none"
        /\ rank = SetMin({_five(Pick(all_cards, P)) :
                             P \in Subsets(DOMAIN all_cards, 5)})

C1_Witness ==
    /\ Returned("evaluate") /\ Len(all_cards) = 7 /\ exc = "none"
    /\ rank < MAX_HIGH_CARD
    /\ \E i \in DOMAIN scored : scored[i][2] > rank

\* C2: for a 4-card hand and a 5-card board, PLOEvaluator.evaluate returns the
\* minimum of _five over exactly the 60 five-card sets made of 2 of the 4 hole
\* cards and 3 of the 5 board cards; no scored set holds 3 or more hole cards
\* or 4 or more board cards
C2_TwoHoleThreeBoard ==
    (Returned("plo_evaluate") /\ Len(hand) = 4 /\ Len(board) = 5) =>
        /\ exc = "none"
        /\ Len(scored) = 60
        /\ \A i \in DOMAIN scored :
              /\ Len(scored[i][1]) = 5
              /\ Cardinality(Range(scored[i][1]) \cap Range(hand)) = 2
              /\ Cardinality(Range(scored[i][1]) \cap Range(board)) = 3
        /\ ScoredSets = {H \cup B : H \in Subsets(Range(hand), 2),
                                    B \in Subsets(Range(board), 3)}
        /\ Cardinality(ScoredSets) = 60
        /\ rank = SetMin({_five(Pick(board, B) \o Pick(hand, H)) :
                             H \in Subsets(DOMAIN hand, 2),
                             B \in Subsets(DOMAIN board, 3)})

\* a hand where using three hole cards would have scored better
C2_Witness ==
    /\ Returned("plo_evaluate") /\ Len(hand) = 4 /\ Len(board) = 5
    /\ rank > _seven(SubSeq(hand, 1, 3) \o board).minimum

Players == {hands[i][1] : i \in DOMAIN hands}

HandOf(p) == hands[CHOOSE i \in DOMAIN hands : hands[i][1] = p][2]

RiverRank(p) == evaluate(HandOf(p), board).rank

\* C3: for a 5-card board, hand_summary returns exactly the players whose rank
\* on the full board is the minimum river rank over all players, each listed
\* once, whoever led on the flop or the turn
C3_RiverLeaders ==
    (Returned("hand_summary") /\ Len(board) = 5) =>
        /\ exc = "none"
        /\ Range(winners) = {p \in Players : \A q \in Players : RiverRank(p) <= RiverRank(q)}
        /\ Cardinality(Range(winners)) = Len(winners)
        /\ Len(streets) = 3
        /\ \A i \in 1..3 : streets[i].cards = i + 2

\* the river is tied between two players, neither of whom led alone all along
C3_Witness ==
    /\ Returned("hand_summary") /\ Len(board) = 5 /\ exc = "none"
    /\ Len(winners) = 2
    /\ Len(streets[1].winners) = 1

\* the flop leader is not among the river leaders
C3_WitnessOvertaken ==
    /\ Returned("hand_summary") /\ Len(board) = 5 /\ exc = "none"
    /\ Len(winners) = 1
    /\ Len(streets[1].winners) = 1
    /\ streets[1].winners # winners

C5_InvalidRankFails ==
    Returned("get_rank_class") =>
        (exc = "none" /\ rank_class # -1) = (hr \in 1..MAX_HIGH_CARD)

\* C6: hand_summary on a board that is not 5 cards long fails with the
\* assertion's error before any hand is evaluated and returns no leaders
C6_InvalidBoardLength ==
    (Returned("hand_summary") /\ Len(board) # 5) =>
        /\ exc = "AssertionError"
        /\ evals = 0
        /\ winners = << >>
        /\ streets = << >>

C6_Witness ==
    /\ Returned("hand_summary") /\ Len(board) = 4 /\ Len(hands) = 2
    /\ exc = "AssertionError"

\* C7 as claimed: the percentage is 0.0 for rank 1 and 1.0 for rank 7462
C7_ZeroAtBest ==
    Returned("get_five_card_rank_percentage") =>
        /\ hr = 1 => percentage = <<0, 1>>
        /\ hr = MAX_HIGH_CARD => percentage = <<1, 1>>

\* C7: the percentage is 1/7462 for rank 1 and 1.0 for rank 7462; it is 0.0
\* for rank 0 only
C7_OneOverMaxAtBest ==
    Returned("get_five_card_rank_percentage") =>
        /\ hr = 1 => percentage = <<1, 7462>>
        /\ hr = MAX_HIGH_CARD => percentage = <<1, 1>>
        /\ (percentage[1] = 0) = (hr = 0)

C7_Witness ==
    /\ Returned("get_five_card_rank_percentage") /\ hr = 1
    /\ percentage[1] # 0

\* C8: get_rank_class is monotonically non-decreasing over the ranks of
\* [1, 7462]: a lower rank never gets a higher class than a higher rank
C8_ClassMonotone ==
    (Returned("get_rank_class") /\ hr \in 1..MAX_HIGH_CARD) =>
        /\ exc = "none"
        /\ \A r2 \in 1..MAX_HIGH_CARD :
              /\ r2 <= hr => get_rank_class(r2).class <= rank_class
              /\ hr <= r2 => rank_class <= get_rank_class(r2).class

C8_Witness ==
    /\ Returned("get_rank_class") /\ hr = MAX_FLUSH + 1
    /\ rank_class > get_rank_class(MAX_FLUSH).class

\* the boundary constants the branches of get_rank_class name for legal ranks
BoundariesUsed == {rank_class_branch(r) : r \in 1..MAX_HIGH_CARD}

C10_FifteenOfSix ==
    (Returned("evaluate") /\ Len(all_cards) \in {6, 7}) =>
        /\ Len(scored) = (IF Len(all_cards) = 6 THEN 15 ELSE 21)
        /\ ScoredSets = Subsets(Range(all_cards), 5)
        /\ Cardinality(ScoredSets) = Len(scored)
        /\ rank = SetMin(ScoredScores)

\* C10: _six and _seven score every 5-card subset of their cards exactly once,
\* 6 subsets of 6 cards and 21 subsets of 7, and return the least score
C10_EverySubsetOnce ==
    (Returned("evaluate") /\ Len(all_cards) \in {6, 7}) =>
        /\ Len(scored) = (IF Len(all_cards) = 6 THEN 6 ELSE 21)
        /\ \A i \in DOMAIN scored : Len(scored[i][1]) = 5
        /\ ScoredSets = Subsets(Range(all_cards), 5)
        /\ Cardinality(ScoredSets) = Len(scored)
        /\ rank = SetMin(ScoredScores)

\* six cards whose best five are not the first combination scored
C10_Witness ==
    /\ Returned("evaluate") /\ Len(all_cards) = 6 /\ Len(scored) = 6
    /\ scored[1][2] > rank
    /\ Cardinality(ScoredScores) > 2

====
